---- MODULE Spec2Model ----
(***************************************************************************)
(* Model of changeLogBuilder.js: the run of init() from loading the        *)
(* configuration to process.exit, with the manifest merge engine           *)
(* (mergeObjects, appendTypesToPackage, getUnique, sortValues, writeFiles, *)
(* jsonToCSV) translated from the source.                                  *)
(*                                                                         *)
(* Strings are sequences of UTF-16 code units, so that the ordinal         *)
(* comparisons of Array.prototype.sort and the text of the CSV file are    *)
(* computed, not assumed.  XML documents are sequences of tokens (open     *)
(* tag, close tag, text).                                                  *)
(***************************************************************************)
EXTENDS Integers, Sequences, FiniteSets, TLC

(***************************************************************************)
(* Bounds of the model.                                                    *)
(***************************************************************************)
\* sub-folders of the root folder in one run
MaxSources == 2
\* <members> elements in all package.xml files of one run together
MaxElems == 3
\* the same two bounds for the runs that are followed into a second run, or
\* whose appends to log.txt are followed
MaxRerunSources == 2
MaxRerunElems == 2

(***************************************************************************)
(* Characters the code writes.                                             *)
(***************************************************************************)
Comma == 44
CR == 13
LF == 10
Quote == 34

\* config.forcePackageVersion
forcePackageVersion == 50

(***************************************************************************)
(* The strings the inputs are drawn from.                                  *)
(***************************************************************************)
Bar == <<66, 97, 114>>
Foo == <<70, 111, 111>>
ApexClass == <<65, 112, 101, 120, 67, 108, 97, 115, 115>>
CustomField == <<67, 117, 115, 116, 111, 109, 70, 105, 101, 108, 100>>
\* "48.0", the version of packageStructure
TemplateVersion == <<52, 56, 46, 48>>
\* "55.0", the version the source manifests declare
SourceVersion == <<53, 53, 46, 48>>
\* "undefined"
Undefined == <<117, 110, 100, 101, 102, 105, 110, 101, 100>>

MemberNames == {Bar, Foo}
TypeNames == {ApexClass, CustomField}

(***************************************************************************)
(* Sequence helpers.                                                       *)
(***************************************************************************)
RECURSIVE Flatten(_)
Flatten(ss) == IF ss = <<>> THEN <<>> ELSE Head(ss) \o Flatten(Tail(ss))

SeqsUpTo(S, lo, hi) == UNION {[1..n -> S] : n \in lo..hi}

(***************************************************************************)
(* JavaScript string operations.                                           *)
(***************************************************************************)
\* a > b on strings: comparison by code units, a proper prefix is smaller
RECURSIVE StrGreater(_, _)
StrGreater(a, b) ==
    IF a = <<>> THEN FALSE
    ELSE IF b = <<>> THEN TRUE
    ELSE IF Head(a) # Head(b) THEN Head(a) > Head(b)
    ELSE StrGreater(Tail(a), Tail(b))

\* String(n) of a non-negative integer
\* "0" .. "9"
DigitChars == <<48, 49, 50, 51, 52, 53, 54, 55, 56, 57>>

RECURSIVE NumToStr(_)
NumToStr(n) ==
    IF n < 10 THEN <<DigitChars[n + 1]>>
    ELSE NumToStr(n \div 10) \o <<DigitChars[(n % 10) + 1]>>

\* Array.prototype.join(","), which is what String(array) does
RECURSIVE Join(_)
Join(arr) ==
    IF arr = <<>> THEN <<>>
    ELSE IF Len(arr) = 1 THEN arr[1]
    ELSE arr[1] \o <<Comma>> \o Join(Tail(arr))

\* String(thisType.name): name is the array xml2js made of the <name>
\* elements, or undefined when there is none
StringOfName(t) == IF t.name = <<>> THEN Undefined ELSE Join(t.name)

(***************************************************************************)
(* XML documents: sequences of tokens.  xml2js is a library; the model     *)
(* keeps what it does to a package.xml: child elements become arrays keyed *)
(* by tag, an element holding only text becomes that string, and an        *)
(* element that does not occur is an absent property.                      *)
(***************************************************************************)
OpenT(tag) == [k |-> "open", tag |-> tag, txt |-> <<>>]
CloseT(tag) == [k |-> "close", tag |-> tag, txt |-> <<>>]
TextT(s) == [k |-> "text", tag |-> "", txt |-> s]

Element(tag, body) == <<OpenT(tag)>> \o body \o <<CloseT(tag)>>
\* an element holding the text s (an empty string gives an empty element)
TextElement(tag, s) == Element(tag, IF s = <<>> THEN <<>> ELSE <<TextT(s)>>)

\* the strict sax parser accepts one root element, properly nested, and no
\* text outside it
RECURSIVE WellFormedFrom(_, _, _)
WellFormedFrom(doc, i, stack) ==
    IF i > Len(doc) THEN FALSE
    ELSE LET t == doc[i] IN
        IF t.k = "open" THEN WellFormedFrom(doc, i + 1, <<t.tag>> \o stack)
        ELSE IF t.k = "close" THEN
            /\ stack # <<>>
            /\ Head(stack) = t.tag
            /\ IF Len(stack) = 1 THEN i = Len(doc)
               ELSE WellFormedFrom(doc, i + 1, Tail(stack))
        ELSE stack # <<>> /\ WellFormedFrom(doc, i + 1, stack)

WellFormed(doc) == doc # <<>> /\ doc[1].k = "open" /\ WellFormedFrom(doc, 1, <<>>)

\* the child elements of a well-formed element body, in document order
RECURSIVE ScanChildren(_, _, _, _, _)
ScanChildren(toks, i, depth, start, acc) ==
    IF i > Len(toks) THEN acc
    ELSE LET t == toks[i] IN
        IF t.k = "open"
        THEN ScanChildren(toks, i + 1, depth + 1, IF depth = 0 THEN i ELSE start, acc)
        ELSE IF t.k = "close"
        THEN IF depth = 1
             THEN ScanChildren(toks, i + 1, 0, 0,
                      Append(acc, [tag |-> toks[start].tag,
                                   body |-> SubSeq(toks, start + 1, i - 1)]))
             ELSE ScanChildren(toks, i + 1, depth - 1, start, acc)
        ELSE ScanChildren(toks, i + 1, depth, start, acc)

ChildElems(toks) == ScanChildren(toks, 1, 0, 0, <<>>)

\* the text of an element that holds only text ("" for an empty element)
TextOf(body) ==
    LET texts == SelectSeq(body, LAMBDA t : t.k = "text")
    IN Flatten([i \in 1..Len(texts) |-> texts[i].txt])

\* the array xml2js builds for the children named tag
TextsOf(kids, tag) ==
    LET sel == SelectSeq(kids, LAMBDA e : e.tag = tag)
    IN [i \in 1..Len(sel) |-> TextOf(sel[i].body)]

HasChild(kids, tag) == \E i \in 1..Len(kids) : kids[i].tag = tag

\* the value of `result` when parsing failed
UndefinedResult ==
    [defined |-> FALSE, root |-> "", hasTypes |-> FALSE, version |-> <<>>, types |-> <<>>]

\* one <types> element as xml2js returns it
ParsedType(body) ==
    LET kids == ChildElems(body)
    IN [name |-> TextsOf(kids, "name"),
        hasMembers |-> HasChild(kids, "members"),
        members |-> TextsOf(kids, "members")]

\* parseString(content, callback): the arguments the callback gets
parseString(content) ==
    IF ~WellFormed(content) THEN [err |-> TRUE, result |-> UndefinedResult]
    ELSE LET kids == ChildElems(SubSeq(content, 2, Len(content) - 1))
             tys == SelectSeq(kids, LAMBDA e : e.tag = "types")
         IN [err |-> FALSE,
             result |-> [defined |-> TRUE,
                         root |-> content[1].tag,
                         hasTypes |-> HasChild(kids, "types"),
                         version |-> TextsOf(kids, "version"),
                         types |-> [i \in 1..Len(tys) |-> ParsedType(tys[i].body)]]]

\* const packageStructure
packageStructure == Element("Package", TextElement("version", TemplateVersion))

(***************************************************************************)
(* The package.xml files a source folder can hold.                         *)
(***************************************************************************)
\* a <types> element the way Salesforce writes it: members first, then name
TypesElement(name, members) ==
    Element("types",
        Flatten([i \in 1..Len(members) |-> TextElement("members", members[i])])
        \o TextElement("name", name))

\* a package.xml with the given groups (sequence of [name, members])
PackageDoc(groups) ==
    Element("Package",
        Flatten([i \in 1..Len(groups) |-> TypesElement(groups[i].name, groups[i].members)])
        \o TextElement("version", SourceVersion))

\* the groups lists with exactly e <members> elements, every group having
\* at least one
RECURSIVE GroupLists(_)
GroupLists(e) ==
    IF e = 0 THEN {<<>>}
    ELSE UNION {
        {<<[name |-> n, members |-> m]>> \o rest :
            n \in TypeNames, m \in [1..k -> MemberNames], rest \in GroupLists(e - k)}
        : k \in 1..e}

\* valid manifests with exactly e members
ValidDocs(e) == {PackageDoc(g) : g \in GroupLists(e)}

\* a manifest with zero groups: the Package has no types collection
NoTypesDoc == PackageDoc(<<>>)
\* a document whose root is not Package
OtherRootDoc == Element("Foo", TextElement("version", SourceVersion))
\* markup that does not parse: the root element is never closed
BrokenDoc == <<OpenT("Package"), OpenT("version")>>

MalformedDocs == {NoTypesDoc, OtherRootDoc, BrokenDoc}

\* a Package whose only <types> element has a name and no members
NoMembersDoc ==
    Element("Package",
        Element("types", TextElement("name", ApexClass))
        \o TextElement("version", SourceVersion))

\* a file of a folder: present with its text, or missing
File(text) == [exists |-> TRUE, text |-> text]
NoFile == [exists |-> FALSE, text |-> <<>>]

\* number of <members> elements of a file
Elems(f) == Len(SelectSeq(f.text, LAMBDA t : t.k = "open" /\ t.tag = "members"))

RECURSIVE TotalElems(_)
TotalElems(fs) == IF fs = <<>> THEN 0 ELSE Elems(Head(fs)) + TotalElems(Tail(fs))

\* the package.xml files a new folder can hold when e more members fit
FolderFiles(e) ==
    {NoFile, File(NoMembersDoc)} \cup {File(d) : d \in MalformedDocs}
    \cup UNION {{File(d) : d \in ValidDocs(k)} : k \in 1..e}

(***************************************************************************)
(* Inputs of the emitter: one change set whose groups list up to           *)
(* MaxEmitMembers members, among them a member with a comma in its name.   *)
(***************************************************************************)
MaxEmitMembers == 3
\* "Bar,Foo"
BarCommaFoo == Bar \o <<Comma>> \o Foo
EmitMemberNames == {Bar, Foo, BarCommaFoo}

EmitGroups ==
    {[name |-> n, members |-> m] :
        n \in TypeNames, m \in SeqsUpTo(EmitMemberNames, 1, MaxEmitMembers)}
\* one group, or two groups with different names
EmitGroupLists ==
    {<<g>> : g \in EmitGroups}
    \cup {<<p[1], p[2]>> : p \in {q \in EmitGroups \X EmitGroups : q[1].name # q[2].name}}

(***************************************************************************)
(* The merge engine.  The accumulator (packageObject, later mergedData and *)
(* objectData: one JavaScript object) is [version, types]; a type is       *)
(* [name, members] with name a string and members an array of strings.     *)
(***************************************************************************)
\* Package.version is the array xml2js parsed, or the number writeFiles sets
ArrayVersion(items) == [isNumber |-> FALSE, items |-> items, num |-> 0]
NumberVersion(n) == [isNumber |-> TRUE, items |-> <<>>, num |-> n]

createPackageXmlTemplate ==
    [version |-> ArrayVersion(parseString(packageStructure).result.version),
     types |-> <<>>]

\* array.indexOf(x) === -1
NotIn(x, array) == \A i \in 1..Len(array) : array[i] # x

RECURSIVE getUniqueFrom(_, _)
getUniqueFrom(array, uniqueArray) ==
    IF array = <<>> THEN uniqueArray
    ELSE getUniqueFrom(Tail(array),
             IF NotIn(Head(array), uniqueArray)
             THEN Append(uniqueArray, Head(array))
             ELSE uniqueArray)

\* a getUnique that removes nothing
getUniqueKeepsAll(array) == array

getUnique(array) == getUniqueFrom(array, <<>>)

\* an appendTypesToPackage that never finds the group
appendAlwaysPushes(typeName, members, packageObject) ==
    [packageObject EXCEPT !.types =
        Append(@, [name |-> typeName, members |-> getUnique(members)])]

\* an appendTypesToPackage that overwrites the members of the group it finds
appendReplacesMembers(typeName, members, packageObject) ==
    LET types == packageObject.types
        matchFound == \E i \in 1..Len(types) : types[i].name = typeName
        merged == [i \in 1..Len(types) |->
                      IF types[i].name = typeName
                      THEN [types[i] EXCEPT !.members = getUnique(members)]
                      ELSE types[i]]
    IN [packageObject EXCEPT !.types =
           IF matchFound THEN merged
           ELSE Append(merged, [name |-> typeName, members |-> getUnique(members)])]

appendTypesToPackage(typeName, members, packageObject) ==
    LET types == packageObject.types
        matchFound == \E i \in 1..Len(types) : types[i].name = typeName
        merged == [i \in 1..Len(types) |->
                      IF types[i].name = typeName
                      THEN [types[i] EXCEPT !.members = getUnique(@ \o members)]
                      ELSE types[i]]
    IN [packageObject EXCEPT !.types =
           IF matchFound THEN merged
           ELSE Append(merged, [name |-> typeName, members |-> getUnique(members)])]

\* the test of mergeObjects on one element of filesDataArray
IsPackageFile(thisFile) ==
    thisFile.defined /\ thisFile.root = "Package" /\ thisFile.hasTypes

\* the inner forEach of mergeObjects, from the type at position i on
RECURSIVE mergeTypesFrom(_, _, _)
mergeTypesFrom(types, i, packageObject) ==
    IF i > Len(types) THEN packageObject
    ELSE mergeTypesFrom(types, i + 1,
             appendTypesToPackage(StringOfName(types[i]), types[i].members, packageObject))

\* mergeObjects(filesDataArray, packageObject), for files whose types all
\* have members
RECURSIVE mergeObjects(_, _)
mergeObjects(files, packageObject) ==
    IF files = <<>> THEN packageObject
    ELSE mergeObjects(Tail(files),
             IF IsPackageFile(Head(files))
             THEN mergeTypesFrom(Head(files).types, 1, packageObject)
             ELSE packageObject)

\* Array.prototype.sort: insertion of each element behind the elements that
\* do not compare greater
RECURSIVE InsertMember(_, _)
InsertMember(x, sorted) ==
    IF sorted = <<>> THEN <<x>>
    ELSE IF StrGreater(sorted[Len(sorted)], x)
         THEN Append(InsertMember(x, SubSeq(sorted, 1, Len(sorted) - 1)), sorted[Len(sorted)])
         ELSE Append(sorted, x)

RECURSIVE SortMembersFrom(_, _)
SortMembersFrom(rest, sorted) ==
    IF rest = <<>> THEN sorted
    ELSE SortMembersFrom(Tail(rest), InsertMember(Head(rest), sorted))

\* a members.reverse() in place of the sort
ReverseMembers(members) == [i \in 1..Len(members) |-> members[Len(members) + 1 - i]]

\* thisType.members.sort()
SortMembers(members) == SortMembersFrom(members, <<>>)

\* a sortValues that leaves the members as merged
sortValuesSkipped(packageObject) == packageObject

sortValues(packageObject) ==
    [packageObject EXCEPT !.types =
        [i \in 1..Len(@) |-> [@[i] EXCEPT !.members = SortMembers(@)]]]

\* the comparator of writeFiles: (a, b) => (a.name > b.name ? 1 : -1)
CompareTypes(a, b) == IF StrGreater(a.name, b.name) THEN 1 ELSE -1

RECURSIVE InsertType(_, _)
InsertType(x, sorted) ==
    IF sorted = <<>> THEN <<x>>
    ELSE IF CompareTypes(sorted[Len(sorted)], x) > 0
         THEN Append(InsertType(x, SubSeq(sorted, 1, Len(sorted) - 1)), sorted[Len(sorted)])
         ELSE Append(sorted, x)

RECURSIVE SortTypesFrom(_, _)
SortTypesFrom(rest, sorted) ==
    IF rest = <<>> THEN sorted
    ELSE SortTypesFrom(Tail(rest), InsertType(Head(rest), sorted))

\* objectData.Package.types.sort(...)
SortTypes(types) == SortTypesFrom(types, <<>>)

(***************************************************************************)
(* The configuration.                                                      *)
(***************************************************************************)
NullVersion == [isNull |-> TRUE, num |-> 0]
SomeVersion(n) == [isNull |-> FALSE, num |-> n]

\* let config = {...}: the options the merge engine reads
DefaultConfig ==
    [forcePackageVersion |-> SomeVersion(forcePackageVersion),
     createMergedPackage |-> TRUE]

\* {...a, ...b}; spreading undefined adds nothing
Spread(a, b) ==
    [k \in DOMAIN a \cup DOMAIN b |-> IF k \in DOMAIN b THEN b[k] ELSE a[k]]

\* what `undefined` spreads to
UndefinedObject == [k \in {} |-> TRUE]

\* loadConfig(configFileName): the function reads and parses the file and
\* has no return statement
loadConfig(file) == UndefinedObject

\* the config.json files: missing, or one that sets the two options
ConfigOverrides ==
    [forcePackageVersion |-> NullVersion, createMergedPackage |-> FALSE]
ConfigFiles == {[exists |-> FALSE, json |-> UndefinedObject],
                [exists |-> TRUE, json |-> ConfigOverrides]}

(***************************************************************************)
(* The emitter.                                                            *)
(***************************************************************************)
\* the override left out: the version of the merged object is written
versionKept(cfg, version) == version

\* the version writeFiles leaves in objectData
VersionToWrite(cfg, version) ==
    IF ~cfg.forcePackageVersion.isNull
    THEN NumberVersion(cfg.forcePackageVersion.num)
    ELSE version

\* lines 331-334 of writeFiles
NormalizeForWrite(cfg, objectData) ==
    [version |-> VersionToWrite(cfg, objectData.version),
     types |-> SortTypes(objectData.types)]

\* the elements xml2js's Builder writes for Package.version
VersionElements(version) ==
    IF version.isNumber THEN TextElement("version", NumToStr(version.num))
    ELSE Flatten([i \in 1..Len(version.items) |-> TextElement("version", version.items[i])])

\* a buildObject that writes the members array as one element
buildObjectJoinsMembers(objectData) ==
    Element("Package",
        VersionElements(objectData.version)
        \o Flatten([i \in 1..Len(objectData.types) |->
             Element("types",
                 TextElement("name", objectData.types[i].name)
                 \o TextElement("members", Join(objectData.types[i].members)))]))

\* builder.buildObject(objectData): the keys of every object in insertion
\* order, an array as one element per entry
buildObject(objectData) ==
    Element("Package",
        VersionElements(objectData.version)
        \o Flatten([i \in 1..Len(objectData.types) |->
             Element("types",
                 TextElement("name", objectData.types[i].name)
                 \o Flatten([j \in 1..Len(objectData.types[i].members) |->
                        TextElement("members", objectData.types[i].members[j])]))]))

\* JSON.stringify(objectData, undefined, 2), as tokens
JPunct(c) == [k |-> c, key |-> "", txt |-> <<>>, num |-> 0]
JKey(name) == [k |-> "key", key |-> name, txt |-> <<>>, num |-> 0]
JStr(s) == [k |-> "string", key |-> "", txt |-> s, num |-> 0]
JNum(n) == [k |-> "number", key |-> "", txt |-> <<>>, num |-> n]
JArray(items) == <<JPunct("[")>> \o items \o <<JPunct("]")>>
JObject(items) == <<JPunct("{")>> \o items \o <<JPunct("}")>>
JStrings(arr) == JArray([i \in 1..Len(arr) |-> JStr(arr[i])])

stringify(objectData) ==
    JObject(<<JKey("Package")>> \o JObject(
        <<JKey("version")>>
        \o (IF objectData.version.isNumber THEN <<JNum(objectData.version.num)>>
            ELSE JStrings(objectData.version.items))
        \o <<JKey("types")>>
        \o JArray(Flatten([i \in 1..Len(objectData.types) |->
               JObject(<<JKey("name"), JStr(objectData.types[i].name), JKey("members")>>
                       \o JStrings(objectData.types[i].members))]))))

\* the loop of jsonToCSV that writes row `index` (0-based), column by column
RECURSIVE CsvRowFrom(_, _, _)
CsvRowFrom(colValues, col, index) ==
    IF col > Len(colValues) THEN <<>>
    ELSE (IF index + 1 <= Len(colValues[col]) /\ colValues[col][index + 1] # <<>>
          THEN colValues[col][index + 1] \o <<Comma>>
          ELSE <<Quote, Quote, Comma>>)
         \o CsvRowFrom(colValues, col + 1, index)

RECURSIVE CsvRowsFrom(_, _, _)
CsvRowsFrom(colValues, index, rowLimit) ==
    IF index >= rowLimit THEN <<>>
    ELSE CsvRowFrom(colValues, 1, index) \o <<CR, LF>>
         \o CsvRowsFrom(colValues, index + 1, rowLimit)

RECURSIVE RowLimitFrom(_, _, _)
RowLimitFrom(types, i, rowLimit) ==
    IF i > Len(types) THEN rowLimit
    ELSE RowLimitFrom(types, i + 1,
             IF Len(types[i].members) > rowLimit THEN Len(types[i].members) ELSE rowLimit)

jsonToCSV(packageAsJsonObject) ==
    LET types == packageAsJsonObject.types
        header == Flatten([i \in 1..Len(types) |-> types[i].name \o <<Comma>>])
        colValues == [i \in 1..Len(types) |-> types[i].members]
        rowLimit == RowLimitFrom(types, 1, 0)
    IN header \o <<CR, LF>> \o CsvRowsFrom(colValues, 0, rowLimit)

(***************************************************************************)
(* The run.                                                                *)
(***************************************************************************)
VARIABLES
    pc,             \* where init() stands
    configFile,     \* config.json
    config,         \* let config
    disk,           \* the package.xml of each change set folder under
                    \* config.rootFolder, in the order getSubFolders lists them
    filesDataArray, \* packageXmlData
    packageObject,  \* mergedContent, mergedData, objectData: one object
    fileIndex,      \* position of mergeObjects in filesDataArray
    typeIndex,      \* position of mergeObjects in thisFile.Package.types
    logged,         \* the calls of log(), in order
    results,        \* the three files of config.outputFolder
    mergedFolder,   \* package.xml of config.mergedPackageFolder
    fatal,          \* the run ended in the uncaughtException handler
    exitCode,       \* the argument of process.exit
    appended,       \* the positions in logged whose fs.appendFile has completed
    mergedAt        \* where getSubFolders lists config.mergedPackageFolder
                    \* among the sub-folders, 0 in a run that started without
                    \* the folder

vars == <<pc, configFile, config, disk, filesDataArray, packageObject, fileIndex,
          typeIndex, logged, results, mergedFolder, fatal, exitCode, appended,
          mergedAt>>

\* getSubFolders(rootFolder), as the package.xml of each folder listed: the
\* downloaded change sets and, once it exists, the merged package folder
InsertAt(seq, i, x) == SubSeq(seq, 1, i - 1) \o <<x>> \o SubSeq(seq, i, Len(seq))
packageFolders ==
    IF mergedAt = 0 THEN disk ELSE InsertAt(disk, mergedAt, mergedFolder)

\* process.exit(1) of finish()
FinishExitCode == 1
\* process.exit(1) of the uncaughtException handler
HandlerExitCode == 1

Entry(text, n) == [text |-> text, n |-> n]
\* log(logItem, ...): the entry is printed and its append to log.txt requested
Log(entries) == logged' = logged \o entries

\* what init() logs before it loads the configuration
StartLog ==
    <<Entry("Change Log Builder 1.0!", 0), Entry("Author: Dan Llewellyn", 0),
      Entry("Started process at", 0)>>

Init ==
    /\ pc = "init"
    /\ configFile \in ConfigFiles
    /\ config = DefaultConfig
    /\ disk = <<>>
    /\ filesDataArray = <<>>
    /\ packageObject = createPackageXmlTemplate
    /\ fileIndex = 1
    /\ typeIndex = 1
    /\ logged = <<>>
    /\ results = [written |-> FALSE, json |-> <<>>, xml |-> <<>>, csv |-> <<>>]
    /\ mergedFolder = NoFile
    /\ fatal = FALSE
    /\ exitCode = 0
    /\ appended = {}
    /\ mergedAt = 0

\* init(), lines 50-60: readFileSync or JSON.parse throws when config.json
\* is missing; init is async, so the throw rejects its promise and Node
\* raises the unhandled rejection as an uncaught exception
LoadConfig ==
    /\ pc = "init"
    /\ Log(StartLog)
    /\ IF configFile.exists
       THEN /\ config' = Spread(config, loadConfig(configFile))
            /\ pc' = "fetch"
       ELSE /\ pc' = "thrown"
            /\ UNCHANGED config
    /\ UNCHANGED <<configFile, disk, filesDataArray, packageObject, fileIndex,
                   typeIndex, results, mergedFolder, fatal, exitCode>>
    /\ UNCHANGED <<appended, mergedAt>>

\* fetchChangeSets, one turn of its loop: sfdx leaves a folder under the
\* root folder; what it holds is an input of the run
FetchFolder(maxSources, maxElems) ==
    /\ pc = "fetch"
    /\ mergedAt = 0
    /\ Len(disk) < maxSources
    /\ \E f \in FolderFiles(maxElems - TotalElems(disk)) :
          disk' = Append(disk, f)
    /\ Log(<<Entry("Fetching", Len(disk) + 1)>>)
    /\ UNCHANGED <<pc, configFile, config, filesDataArray, packageObject, fileIndex,
                   typeIndex, results, mergedFolder, fatal, exitCode>>
    /\ UNCHANGED <<appended, mergedAt>>

FetchChangeSet == FetchFolder(MaxSources, MaxElems)

\* the same turn of the loop under the smaller bounds
FetchChangeSetSmall == FetchFolder(MaxRerunSources, MaxRerunElems)

\* init(), lines 63-71: readFileSync("changeSetContent.txt") or
\* readJSONFromFile(config.changesetJSONFile) throws
FetchThrows ==
    /\ pc = "fetch"
    /\ disk = <<>>
    /\ pc' = "thrown"
    /\ Log(<<Entry("Getting change sets from scraped page content", 0)>>)
    /\ UNCHANGED <<configFile, config, disk, filesDataArray, packageObject, fileIndex,
                   typeIndex, results, mergedFolder, fatal, exitCode>>
    /\ UNCHANGED <<appended, mergedAt>>

\* fetchChangeSets when the root folder holds every change set already (a
\* later run, skipExistingChangeSets is true): one entry per change set and
\* no download
SkipLog ==
    IF mergedAt = 0 THEN <<>>
    ELSE [i \in 1..Len(disk) |-> Entry("already exists. Skipping download", i)]

\* init(), line 75
FetchDone ==
    /\ pc = "fetch"
    /\ pc' = "read"
    /\ Log(SkipLog \o <<Entry("Done fetching change sets", 0)>>)
    /\ UNCHANGED <<configFile, config, disk, filesDataArray, packageObject, fileIndex,
                   typeIndex, results, mergedFolder, fatal, exitCode>>
    /\ UNCHANGED <<appended, mergedAt>>

\* index of the first folder without a readable package.xml, 0 when none
RECURSIVE FirstUnreadable(_, _)
FirstUnreadable(folders, i) ==
    IF i > Len(folders) THEN 0
    ELSE IF ~folders[i].exists THEN i
    ELSE FirstUnreadable(folders, i + 1)

\* what the loop of readPackageXML logs for the folders 1..n
ReadLog(folders, n) ==
    Flatten([i \in 1..n |->
        <<Entry("Reading package from", i)>>
        \o (IF folders[i].exists /\ parseString(folders[i].text).err
            THEN <<Entry("Error parsing XML!", i)>> ELSE <<>>)])

\* what readPackageXML and init() log when every folder is read
ReadAllLog(folders) ==
    <<Entry("Beginning reading of package.xml files", 0), Entry("Got folders", Len(folders))>>
    \o ReadLog(folders, Len(folders))
    \o <<Entry("Finished reading files. Starting merge", 0)>>

\* init(), lines 78-83: readPackageXML, createPackageXmlTemplate.
\* fs.readFileSync throws on a folder without package.xml and nothing
\* catches it
ReadPackageXML ==
    /\ pc = "read"
    /\ LET folders == packageFolders
           bad == FirstUnreadable(folders, 1)
           start == <<Entry("Beginning reading of package.xml files", 0),
                      Entry("Got folders", Len(folders))>>
       IN IF bad # 0
          THEN /\ pc' = "thrown"
               /\ Log(start \o ReadLog(folders, bad))
               /\ UNCHANGED <<filesDataArray, packageObject>>
          ELSE /\ pc' = "merge"
               /\ filesDataArray' =
                     [i \in 1..Len(folders) |-> parseString(folders[i].text).result]
               /\ packageObject' = createPackageXmlTemplate
               /\ Log(ReadAllLog(folders))
    /\ UNCHANGED <<configFile, config, disk, fileIndex, typeIndex, results,
                   mergedFolder, fatal, exitCode>>
    /\ UNCHANGED <<appended, mergedAt>>

\* mergeObjects, one turn of the inner forEach: one call of
\* appendTypesToPackage
MergeType ==
    /\ pc = "merge"
    /\ fileIndex <= Len(filesDataArray)
    /\ IsPackageFile(filesDataArray[fileIndex])
    /\ LET thisFile == filesDataArray[fileIndex]
           thisType == thisFile.types[typeIndex]
       IN IF ~thisType.hasMembers
          THEN \* thisType.members.length: TypeError, members is undefined
               /\ pc' = "thrown"
               /\ UNCHANGED <<packageObject, fileIndex, typeIndex, logged>>
          ELSE /\ Log(<<Entry("Writing members to", Len(thisType.members))>>)
               /\ packageObject' =
                     appendTypesToPackage(StringOfName(thisType), thisType.members,
                                          packageObject)
               /\ IF typeIndex < Len(thisFile.types)
                  THEN typeIndex' = typeIndex + 1 /\ UNCHANGED fileIndex
                  ELSE typeIndex' = 1 /\ fileIndex' = fileIndex + 1
               /\ UNCHANGED pc
    /\ UNCHANGED <<configFile, config, disk, filesDataArray, results,
                   mergedFolder, fatal, exitCode>>
    /\ UNCHANGED <<appended, mergedAt>>

\* a mergeObjects that starts over from the template at a malformed file
MergeMalformedResets ==
    /\ pc = "merge"
    /\ fileIndex <= Len(filesDataArray)
    /\ ~IsPackageFile(filesDataArray[fileIndex])
    /\ Log(<<Entry("Malfomred or empty packaged file", fileIndex - 1)>>)
    /\ fileIndex' = fileIndex + 1
    /\ packageObject' = createPackageXmlTemplate
    /\ UNCHANGED <<pc, configFile, config, disk, filesDataArray,
                   typeIndex, results, mergedFolder, fatal, exitCode>>
    /\ UNCHANGED <<appended, mergedAt>>

\* mergeObjects, the else branch of the outer forEach
MergeMalformed ==
    /\ pc = "merge"
    /\ fileIndex <= Len(filesDataArray)
    /\ ~IsPackageFile(filesDataArray[fileIndex])
    /\ Log(<<Entry("Malfomred or empty packaged file", fileIndex - 1)>>)
    /\ fileIndex' = fileIndex + 1
    /\ UNCHANGED <<pc, configFile, config, disk, filesDataArray, packageObject,
                   typeIndex, results, mergedFolder, fatal, exitCode>>
    /\ UNCHANGED <<appended, mergedAt>>

\* init(), line 89, once mergeObjects has returned
SortValues ==
    /\ pc = "merge"
    /\ fileIndex > Len(filesDataArray)
    /\ packageObject' = sortValues(packageObject)
    /\ pc' = "write"
    /\ UNCHANGED <<configFile, config, disk, filesDataArray, fileIndex, typeIndex,
                   logged, results, mergedFolder, fatal, exitCode>>
    /\ UNCHANGED <<appended, mergedAt>>

\* writeFiles(mergedData, "package").  buildMergedPackageFolder creates the
\* merged folder with the first folder it copies; with no folder to copy,
\* fs.writeFileSync throws on the missing directory
\* the merged package folder: whether the directory exists and its package.xml
Folder(dir, pkg) == [dir |-> dir, pkg |-> pkg]

\* copyRecursiveSync(src, dest) for a change set folder: dest is made when it
\* does not exist and every file of src is copied over the file of that name
copyRecursiveSync(src, dest) ==
    Folder(TRUE, IF src.exists THEN src ELSE dest.pkg)

\* buildMergedPackageFolder, the loop from folder i on: every sub-folder but
\* the target is copied into the target
RECURSIVE copyFoldersFrom(_, _, _, _)
copyFoldersFrom(folders, i, target, dest) ==
    IF i > Len(folders) THEN dest
    ELSE copyFoldersFrom(folders, i + 1, target,
             IF i = target THEN dest ELSE copyRecursiveSync(folders[i], dest))

buildMergedPackageFolder(folders, target, dest) ==
    copyFoldersFrom(folders, 1, target, dest)

\* what buildMergedPackageFolder logs
CopyLog(folders, target) ==
    <<Entry("Building merged package into folder...", 0)>>
    \o Flatten([i \in 1..Len(folders) |->
           IF i = target THEN <<>> ELSE <<Entry("Reading package from", i)>>])

\* the merged markup written before the folders are copied
writeThenCopy(folders, target, dest, xml) ==
    buildMergedPackageFolder(folders, target,
        Folder(dest.dir, IF dest.dir THEN File(xml) ELSE dest.pkg))

\* writeFiles, lines 361-370: the folders are copied, then the merged markup
\* is written to package.xml of the target, which writeFileSync can do only
\* in a directory that exists
writeMergedPackage(folders, target, dest, xml) ==
    LET copied == buildMergedPackageFolder(folders, target, dest)
    IN Folder(copied.dir, IF copied.dir THEN File(xml) ELSE copied.pkg)

WriteFiles ==
    /\ pc = "write"
    /\ LET objectData == NormalizeForWrite(config, packageObject)
           xml == buildObject(objectData)
           merged == writeMergedPackage(packageFolders, mergedAt,
                                        Folder(mergedAt # 0, mergedFolder), xml)
       IN /\ packageObject' = objectData
          /\ results' = [written |-> TRUE, json |-> stringify(objectData),
                         xml |-> xml, csv |-> jsonToCSV(objectData)]
          /\ IF ~config.createMergedPackage
             THEN /\ pc' = "finish"
                  /\ Log(<<Entry("Writing new package.xml...", 0)>>)
                  /\ UNCHANGED mergedFolder
             ELSE /\ Log(<<Entry("Writing new package.xml...", 0)>>
                         \o CopyLog(packageFolders, mergedAt))
                  /\ mergedFolder' = merged.pkg
                  /\ pc' = IF merged.dir THEN "finish" ELSE "thrown"
    /\ UNCHANGED <<configFile, config, disk, filesDataArray, fileIndex, typeIndex,
                   fatal, exitCode>>
    /\ UNCHANGED <<appended, mergedAt>>

\* process start, line 533, for a second time after a run that completed:
\* the change set folders are as the first run left them, the files written
\* by the first run are on disk and the merged package folder is one of the
\* sub-folders of the root; where readdirSync lists it depends on the names
Rerun ==
    /\ pc = "exited"
    /\ ~fatal
    /\ mergedAt = 0
    /\ mergedFolder.exists
    /\ \E at \in 1..(Len(disk) + 1) : mergedAt' = at
    /\ pc' = "init"
    /\ config' = DefaultConfig
    /\ filesDataArray' = <<>>
    /\ packageObject' = createPackageXmlTemplate
    /\ fileIndex' = 1
    /\ typeIndex' = 1
    /\ logged' = <<>>
    /\ fatal' = FALSE
    /\ exitCode' = 0
    /\ UNCHANGED <<configFile, disk, results, mergedFolder, appended>>

\* the callback of one fs.appendFile started by log() runs: the entry is in
\* log.txt.  I/O callbacks run only while init() is suspended in an await,
\* which is in lines 63-74; appends are separate operations of the thread
\* pool and complete in any order
AppendCompletes ==
    /\ pc = "fetch"
    /\ \E i \in (1..Len(logged)) \ appended : appended' = appended \cup {i}
    /\ UNCHANGED <<pc, configFile, config, disk, filesDataArray, packageObject,
                   fileIndex, typeIndex, logged, results, mergedFolder, fatal,
                   exitCode, mergedAt>>

\* finish()
Finish ==
    /\ pc = "finish"
    /\ Log(<<Entry("Process completed", 0), Entry("------", 0)>>)
    /\ exitCode' = FinishExitCode
    /\ pc' = "exited"
    /\ UNCHANGED <<configFile, config, disk, filesDataArray, packageObject, fileIndex,
                   typeIndex, results, mergedFolder, fatal>>
    /\ UNCHANGED <<appended, mergedAt>>

\* process.on("uncaughtException", ...)
UncaughtException ==
    /\ pc = "thrown"
    /\ Log(<<Entry("err", 0)>>)
    /\ fatal' = TRUE
    /\ exitCode' = HandlerExitCode
    /\ pc' = "exited"
    /\ UNCHANGED <<configFile, config, disk, filesDataArray, packageObject, fileIndex,
                   typeIndex, results, mergedFolder>>
    /\ UNCHANGED <<appended, mergedAt>>

Next ==
    \/ LoadConfig
    \/ FetchChangeSet
    \/ FetchThrows
    \/ FetchDone
    \/ ReadPackageXML
    \/ MergeType
    \/ MergeMalformed
    \/ SortValues
    \/ WriteFiles
    \/ Finish
    \/ UncaughtException

Spec == Init /\ [][Next]_vars

(***************************************************************************)
(* Two runs over the same root folder: the first as in Spec, under the     *)
(* smaller bounds, the second started once the first has completed.        *)
(***************************************************************************)
NextRerun ==
    \/ LoadConfig
    \/ FetchChangeSetSmall
    \/ FetchThrows
    \/ FetchDone
    \/ ReadPackageXML
    \/ MergeType
    \/ MergeMalformed
    \/ SortValues
    \/ WriteFiles
    \/ Finish
    \/ UncaughtException
    \/ Rerun

SpecRerun == Init /\ [][NextRerun]_vars

(***************************************************************************)
(* One run, under the smaller bounds, with the completion of the appends   *)
(* to log.txt.  Completions change appended only, so leaving them out of   *)
(* Spec leaves what Spec says of every other variable as it is.            *)
(***************************************************************************)
NextLog ==
    \/ LoadConfig
    \/ FetchChangeSetSmall
    \/ FetchThrows
    \/ FetchDone
    \/ ReadPackageXML
    \/ MergeType
    \/ MergeMalformed
    \/ SortValues
    \/ WriteFiles
    \/ Finish
    \/ UncaughtException
    \/ AppendCompletes

SpecLog == Init /\ [][NextLog]_vars

(***************************************************************************)
(* The emitter on its own: the run stands where mergeObjects has returned  *)
(* from merging one downloaded change set.                                 *)
(***************************************************************************)
\* what mergeObjects logs for one valid source
MergeLog(file) ==
    [j \in 1..Len(file.types) |-> Entry("Writing members to", Len(file.types[j].members))]

InitEmit ==
    \E g \in EmitGroupLists :
        /\ pc = "merge"
        /\ configFile \in {c \in ConfigFiles : c.exists}
        /\ config = Spread(DefaultConfig, loadConfig(configFile))
        /\ disk = <<File(PackageDoc(g))>>
        /\ filesDataArray = <<parseString(PackageDoc(g)).result>>
        /\ packageObject = mergeObjects(filesDataArray, createPackageXmlTemplate)
        /\ fileIndex = 2
        /\ typeIndex = 1
        /\ logged = StartLog \o <<Entry("Fetching", 1), Entry("Done fetching change sets", 0)>>
                    \o ReadAllLog(disk) \o MergeLog(filesDataArray[1])
        /\ results = [written |-> FALSE, json |-> <<>>, xml |-> <<>>, csv |-> <<>>]
        /\ mergedFolder = NoFile
        /\ fatal = FALSE
        /\ exitCode = 0
        /\ appended = {}
        /\ mergedAt = 0

(***************************************************************************)
(* writeFiles as a function of the configuration object: the run stands    *)
(* where mergeObjects has returned from merging one downloaded change set, *)
(* and config holds any of the values its two options can take.            *)
(***************************************************************************)
ConfigValues ==
    {[forcePackageVersion |-> v, createMergedPackage |-> b] :
        v \in {NullVersion, SomeVersion(forcePackageVersion)}, b \in BOOLEAN}

InitConfigured ==
    \E e \in 1..MaxElems : \E g \in GroupLists(e) :
        /\ pc = "merge"
        /\ configFile \in {c \in ConfigFiles : c.exists}
        /\ config \in ConfigValues
        /\ disk = <<File(PackageDoc(g))>>
        /\ filesDataArray = <<parseString(PackageDoc(g)).result>>
        /\ packageObject = mergeObjects(filesDataArray, createPackageXmlTemplate)
        /\ fileIndex = 2
        /\ typeIndex = 1
        /\ logged = StartLog \o <<Entry("Fetching", 1), Entry("Done fetching change sets", 0)>>
                    \o ReadAllLog(disk) \o MergeLog(filesDataArray[1])
        /\ results = [written |-> FALSE, json |-> <<>>, xml |-> <<>>, csv |-> <<>>]
        /\ mergedFolder = NoFile
        /\ fatal = FALSE
        /\ exitCode = 0
        /\ appended = {}
        /\ mergedAt = 0

NextEmit ==
    \/ SortValues
    \/ WriteFiles
    \/ Finish

SpecEmit == InitEmit /\ [][NextEmit]_vars

SpecConfigured == InitConfigured /\ [][NextEmit]_vars

(***************************************************************************)
(* Vocabulary of the properties.                                           *)
(***************************************************************************)
\* normalization as init() and writeFiles apply it to the merged object
Normalize(cfg, pkg) == NormalizeForWrite(cfg, sortValues(pkg))

\* the run has passed writeFiles' sort and version override
Normalized == results.written

\* the run merged its sources and ended through finish()
Completed == pc = "exited" /\ ~fatal

Permute(seq, p) == [i \in 1..Len(seq) |-> seq[p[i]]]
Perms(n) == {p \in [1..n -> 1..n] : \A i, j \in 1..n : i # j => p[i] # p[j]}

\* a source mergeObjects accepts
ValidSource(f) == f.defined /\ f.root = "Package" /\ f.hasTypes
\* every group of every source lists members
AllTypesHaveMembers ==
    \A i \in 1..Len(filesDataArray) :
        \A j \in 1..Len(filesDataArray[i].types) : filesDataArray[i].types[j].hasMembers

NoRepeats(seq) == \A i, j \in 1..Len(seq) : i # j => seq[i] # seq[j]
Elements(seq) == {seq[i] : i \in 1..Len(seq)}

\* the group names of the valid sources, and the members the sources list
\* under a name
SourceGroups ==
    UNION {{filesDataArray[i].types[j] : j \in 1..Len(filesDataArray[i].types)} :
             i \in {k \in 1..Len(filesDataArray) : ValidSource(filesDataArray[k])}}
SourceNames == {StringOfName(g) : g \in SourceGroups}
SourceMembers(name) ==
    UNION {Elements(g.members) : g \in {h \in SourceGroups : StringOfName(h) = name}}

(***************************************************************************)
(* C1.  Merging the sources in any order gives the same normalized         *)
(* manifest: for every permutation of the parsed sources, the fold of      *)
(* mergeObjects from the empty template followed by sortValues and the     *)
(* sort of writeFiles equals the manifest the run wrote.                   *)
(***************************************************************************)
MergeOrderIndependent ==
    (Normalized /\ AllTypesHaveMembers) =>
        \A p \in Perms(Len(filesDataArray)) :
            Normalize(config, mergeObjects(Permute(filesDataArray, p),
                                           createPackageXmlTemplate)) = packageObject

\* two valid sources whose merge before normalization depends on the order
MergeOrderWitness ==
    /\ Completed
    /\ Len(filesDataArray) = 2
    /\ ValidSource(filesDataArray[1]) /\ ValidSource(filesDataArray[2])
    /\ mergeObjects(filesDataArray, createPackageXmlTemplate)
         # mergeObjects(<<filesDataArray[2], filesDataArray[1]>>, createPackageXmlTemplate)

(***************************************************************************)
(* C2.  After every call of appendTypesToPackage no group of the           *)
(* accumulator lists a member twice.                                       *)
(***************************************************************************)
NoDuplicateMembers ==
    \A i \in 1..Len(packageObject.types) : NoRepeats(packageObject.types[i].members)

\* merged: a source that repeats a member inside a group, and a second
\* source that gives the same member to the same group
DuplicateMembersWitness ==
    /\ pc = "merge"
    /\ fileIndex = 3
    /\ ValidSource(filesDataArray[1]) /\ ValidSource(filesDataArray[2])
    /\ ~NoRepeats(filesDataArray[1].types[1].members)
    /\ StringOfName(filesDataArray[2].types[1]) = StringOfName(filesDataArray[1].types[1])
    /\ Elements(filesDataArray[2].types[1].members)
         \cap Elements(filesDataArray[1].types[1].members) # {}

(***************************************************************************)
(* C3.  No two groups of the accumulator have the same name, at any point  *)
(* of the merge and after normalization.                                   *)
(***************************************************************************)
UniqueGroupNames ==
    \A i, j \in 1..Len(packageObject.types) :
        i # j => packageObject.types[i].name # packageObject.types[j].name

\* a source that lists the same group name twice has been merged and written
RepeatedGroupWitness ==
    /\ Completed
    /\ \E i \in 1..Len(filesDataArray) :
          /\ ValidSource(filesDataArray[i])
          /\ Len(filesDataArray[i].types) = 2
          /\ StringOfName(filesDataArray[i].types[1]) = StringOfName(filesDataArray[i].types[2])

(***************************************************************************)
(* C4.  The normalized manifest has exactly one group for each group name  *)
(* of a valid source, and the group's members are the union of the members *)
(* the sources list under that name, in ascending ordinal order.           *)
(***************************************************************************)
Ascending(seq) == \A i \in 1..(Len(seq) - 1) : StrGreater(seq[i + 1], seq[i])

MergedIsSortedUnion ==
    (Normalized /\ AllTypesHaveMembers) =>
        LET types == packageObject.types IN
        /\ {types[i].name : i \in 1..Len(types)} = SourceNames
        /\ Len(types) = Cardinality(SourceNames)
        /\ \A i \in 1..Len(types) :
              /\ Elements(types[i].members) = SourceMembers(types[i].name)
              /\ Len(types[i].members) = Cardinality(SourceMembers(types[i].name))
              /\ Ascending(types[i].members)

\* sources ApexClass:[Foo,Bar] and ApexClass:[Bar] gave ApexClass:[Bar,Foo]
SortedUnionWitness ==
    /\ Completed
    /\ Len(filesDataArray) = 2
    /\ filesDataArray[1].types = <<[name |-> <<ApexClass>>, hasMembers |-> TRUE,
                                    members |-> <<Foo, Bar>>]>>
    /\ filesDataArray[2].types = <<[name |-> <<ApexClass>>, hasMembers |-> TRUE,
                                    members |-> <<Bar>>]>>
    /\ packageObject.types = <<[name |-> ApexClass, members |-> <<Bar, Foo>>]>>

(***************************************************************************)
(* C5.  A source folder whose package.xml cannot be read is skipped: the   *)
(* run still ends through finish() with the three outputs written.         *)
(***************************************************************************)
UnreadableSourceSkipped ==
    (/\ pc = "exited"
     /\ Len(disk) >= 2
     /\ \E i \in 1..Len(disk) :
           /\ ~disk[i].exists
           /\ \A j \in 1..Len(disk) \ {i} :
                 disk[j].exists /\ ValidSource(parseString(disk[j].text).result))
    => (~fatal /\ results.written)

(***************************************************************************)
(* C6.  A source without the Package container or without types (markup   *)
(* that did not parse, another root, zero groups) is logged and adds       *)
(* nothing: wherever it stands among the sources, the run completes and    *)
(* the manifest written is the merge of the other sources alone.           *)
(***************************************************************************)
MalformedEntries == SelectSeq(logged, LAMBDA e : e.text = "Malfomred or empty packaged file")

MalformedSourceSkipped ==
    (pc = "exited" /\ filesDataArray # <<>> /\ AllTypesHaveMembers) =>
        /\ Completed
        /\ results.written
        /\ packageObject =
              Normalize(config, mergeObjects(SelectSeq(filesDataArray, ValidSource),
                                             createPackageXmlTemplate))
        /\ Len(MalformedEntries)
              = Len(filesDataArray) - Len(SelectSeq(filesDataArray, ValidSource))
        /\ \A i \in 1..Len(filesDataArray) :
              ~ValidSource(filesDataArray[i]) =>
                  \E k \in 1..Len(MalformedEntries) : MalformedEntries[k].n = i - 1

\* a malformed source stood before a valid one, and the valid one is merged
MalformedSourceWitness ==
    /\ Completed
    /\ Len(filesDataArray) = 2
    /\ ~filesDataArray[1].defined
    /\ ValidSource(filesDataArray[2])
    /\ packageObject.types # <<>>

(***************************************************************************)
(* Reading the tabular file back: lines end with CR LF, fields with a      *)
(* comma.                                                                  *)
(***************************************************************************)
RECURSIVE SplitLinesFrom(_, _, _)
SplitLinesFrom(text, line, acc) ==
    IF text = <<>> THEN acc
    ELSE IF Len(text) >= 2 /\ text[1] = CR /\ text[2] = LF
         THEN SplitLinesFrom(SubSeq(text, 3, Len(text)), <<>>, Append(acc, line))
         ELSE SplitLinesFrom(Tail(text), Append(line, Head(text)), acc)
CsvLines(text) == SplitLinesFrom(text, <<>>, <<>>)

RECURSIVE SplitFieldsFrom(_, _, _)
SplitFieldsFrom(line, field, acc) ==
    IF line = <<>> THEN acc
    ELSE IF Head(line) = Comma
         THEN SplitFieldsFrom(Tail(line), <<>>, Append(acc, field))
         ELSE SplitFieldsFrom(Tail(line), Append(field, Head(line)), acc)
CsvFields(line) == SplitFieldsFrom(line, <<>>, <<>>)

Placeholder == <<Quote, Quote>>

MaxMemberCount(types) ==
    IF types = <<>> THEN 0
    ELSE CHOOSE n \in {Len(types[i].members) : i \in 1..Len(types)} :
             \A i \in 1..Len(types) : Len(types[i].members) <= n

(***************************************************************************)
(* C7.  The tabular file of a normalized manifest has, after the header,   *)
(* as many rows as the largest group has members; every row has one field  *)
(* per group, in group order; field j of row i is member i of group j, or  *)
(* the placeholder "" when group j has fewer than i members.               *)
(***************************************************************************)
CsvIsPaddedTransposition ==
    Normalized =>
        LET types == packageObject.types
            lines == CsvLines(results.csv)
            rows == Tail(lines)
        IN /\ Len(lines) >= 1
           /\ Len(rows) = MaxMemberCount(types)
           /\ \A i \in 1..Len(rows) :
                 LET fields == CsvFields(rows[i]) IN
                 /\ Len(fields) = Len(types)
                 /\ \A j \in 1..Len(types) :
                       j <= Len(fields) =>
                           fields[j] = IF i <= Len(types[j].members)
                                       THEN types[j].members[i]
                                       ELSE Placeholder

(***************************************************************************)
(* C8.  Parsing the markup written for the normalized manifest and         *)
(* merging and normalizing what was parsed gives the normalized manifest   *)
(* again: same version, same group names, same members in every group.     *)
(***************************************************************************)
VersionText(version) ==
    IF version.isNumber THEN NumToStr(version.num) ELSE Join(version.items)

MarkupRoundTrip ==
    Normalized =>
        LET parsed == parseString(results.xml) IN
        /\ ~parsed.err
        /\ parsed.result.root = "Package"
        /\ Join(parsed.result.version) = VersionText(packageObject.version)
        /\ Normalize(config, mergeObjects(<<parsed.result>>, createPackageXmlTemplate))
             = packageObject

\* markup with two groups, one of them with two members, was written
RoundTripWitness ==
    /\ Completed
    /\ Len(packageObject.types) = 2
    /\ \E i \in 1..2 : Len(packageObject.types[i].members) = 2
    /\ Len(results.xml) > 2

(***************************************************************************)
(* C9.  Normalization is idempotent: sorting the members and the groups    *)
(* and applying the version override again leaves the normalized manifest  *)
(* as it is.                                                               *)
(***************************************************************************)
NormalizeIdempotent ==
    Normalized => Normalize(config, packageObject) = packageObject

\* a manifest that normalization had to reorder: groups and members
NormalizeWitness ==
    /\ Completed
    /\ Len(packageObject.types) = 2
    /\ \E i \in 1..2 : Len(packageObject.types[i].members) = 2
    /\ mergeObjects(filesDataArray, createPackageXmlTemplate).types # packageObject.types

(***************************************************************************)
(* C10.  A run that ends through a fatal error exits with a code other     *)
(* than the code a successful run exits with.                              *)
(***************************************************************************)
FatalExitDistinct ==
    (pc = "exited" /\ fatal) => exitCode # FinishExitCode

(***************************************************************************)
(* C11.  When the process has exited, every error that log() was given,    *)
(* the error of the uncaughtException handler included, is in log.txt:     *)
(* its append has completed.                                               *)
(***************************************************************************)
ErrorTexts == {"Malfomred or empty packaged file", "Error parsing XML!", "err"}

ErrorsAppendedBeforeExit ==
    pc = "exited" =>
        \A i \in 1..Len(logged) : logged[i].text \in ErrorTexts => i \in appended

(***************************************************************************)
(* C12.  The version written to the markup file, to the key-value file and *)
(* to package.xml of the merged package folder is the override when        *)
(* config.forcePackageVersion is not null and the version of the empty     *)
(* template when it is null; it is never the version a source declares.    *)
(* The tabular file carries no version.                                    *)
(***************************************************************************)
\* the value JSON.stringify wrote for the key "version"
JsonVersion(tokens) ==
    LET at == CHOOSE i \in 1..Len(tokens) : tokens[i] = JKey("version")
        end == CHOOSE j \in (at + 1)..Len(tokens) :
                  /\ tokens[j] = JPunct("]")
                  /\ \A h \in (at + 1)..(j - 1) : tokens[h] # JPunct("]")
    IN IF tokens[at + 1].k = "number" THEN <<tokens[at + 1]>>
       ELSE SubSeq(tokens, at + 1, end)

VersionIsOverrideOrTemplate ==
    Normalized =>
        LET override == config.forcePackageVersion
            text == IF override.isNull THEN TemplateVersion ELSE NumToStr(override.num)
        IN /\ parseString(results.xml).result.version = <<text>>
           /\ JsonVersion(results.json) =
                 IF override.isNull THEN JStrings(<<TemplateVersion>>)
                 ELSE <<JNum(override.num)>>
           /\ mergedFolder.exists =>
                 parseString(mergedFolder.text).result.version = <<text>>
           /\ text # SourceVersion

\* with no override, a manifest merged from a source that declares another
\* version was written
TemplateVersionWitness ==
    /\ Completed
    /\ config.forcePackageVersion.isNull
    /\ mergedFolder.exists
    /\ filesDataArray[1].version = <<SourceVersion>>
    /\ parseString(results.xml).result.version = <<TemplateVersion>>

(***************************************************************************)
(* C13.  Once init() has loaded the configuration, every option that       *)
(* config.json sets has the value of the file.                             *)
(***************************************************************************)
ConfigFileTakesEffect ==
    (configFile.exists /\ pc \notin {"init", "thrown"}) =>
        \A k \in DOMAIN configFile.json : config[k] = configFile.json[k]

(***************************************************************************)
(* C14.  At the end of a run with createMergedPackage set, package.xml of  *)
(* the merged package folder is the merged markup the run wrote, and not   *)
(* the package.xml of any change set folder that was copied into it.       *)
(***************************************************************************)
MergedFolderHoldsMergedManifest ==
    (Completed /\ config.createMergedPackage) =>
        /\ mergedFolder = File(results.xml)
        /\ results.xml = buildObject(packageObject)
        /\ \A i \in 1..Len(disk) : mergedFolder # disk[i]

\* a second run ended: two change set folders were copied and the merged
\* package folder, listed before the last of them, was skipped
MergedFolderWitness ==
    /\ Completed
    /\ config.createMergedPackage
    /\ Len(disk) = 2
    /\ mergedAt \in 1..2
    /\ \A i \in 1..2 : ValidSource(parseString(disk[i].text).result)
    /\ parseString(mergedFolder.text).result.types # <<>>

(***************************************************************************)
(* C15.  In a second run over the same change set folders, where the       *)
(* merged package folder of the first run is read as one more source,      *)
(* writeFiles writes what the first run wrote: the three files and         *)
(* package.xml of the merged package folder stay as they are.              *)
(***************************************************************************)
SecondRunWritesSameManifest ==
    [][(mergedAt # 0 /\ pc = "write") =>
          /\ pc' = "finish"
          /\ results' = results
          /\ mergedFolder' = mergedFolder]_vars

\* a second run ended in which the merged manifest of the first run was
\* merged as a source together with two change sets
SecondRunWitness ==
    /\ Completed
    /\ mergedAt # 0
    /\ Len(disk) = 2
    /\ Len(filesDataArray) = 3
    /\ ValidSource(filesDataArray[mergedAt])
    /\ filesDataArray[mergedAt] = parseString(results.xml).result
    /\ \E i \in 1..Len(packageObject.types) : Len(packageObject.types[i].members) = 2

====
